---- MODULE Spec2Model ----
(***************************************************************************)
(* A model of dezero/core_simple.py: Variables, Functions, the process-wide *)
(* Config flag with its scoped override, and Variable.backward with its     *)
(* generation-ordered heap; of Tanh in dezero/functions.py and of           *)
(* get_dot_graph in dezero/utils.py.  Tensors are 0-dimensional integer     *)
(* arrays, so np.ones_like(data) is 1.  Variables and Functions are         *)
(* identified by their allocation index (1, 2, ...); Python's None is 0 for *)
(* an absent Function and <<>> for an absent gradient.                      *)
(***************************************************************************)
EXTENDS Integers, Sequences, FiniteSets, TLC

\* ---------------------------------------------------------------- bounds
\* Spec: Variables and backward passes of a run
MaxVars == 4

MaxPasses == 1

\* SpecRerun: Variables and backward passes of a run
MaxRerunVars == 3

MaxReruns == 2

\* SpecPath: Variables of a run
MaxPathVars == 4

\* SpecOps: Variables of a run
MaxOpsVars == 3

\* SpecReuse: Variables of a run
MaxReuseVars == 4

\* SpecGraph: Variables of a run, and nesting depth of using_config scopes
MaxGraphVars == 3

MaxDepth == 2

\* np.exp is integral only at 0
ExpDomain == {0}

\* np.tanh is integral only at 0
TanhDomain == {0}

\* --------------------------------------------------------------- encoding
None == 0

NoGrad == <<>>

Some(g) == <<g>>

VARIABLES
    enable_backprop,  \* Config.enable_backprop
    saved,            \* old_value of every using_config scope still open
    data,             \* Variable.data, by Variable
    grad,             \* Variable.grad, by Variable
    creator,          \* Variable.creator, by Variable (None for a leaf)
    generation,       \* Variable.generation, by Variable
    kind,             \* class of each Function instance
    inputs,           \* Function.inputs, by Function
    outputs,          \* Function.outputs, by Function
    fgen,             \* Function.generation, by Function
    alive,            \* the Variables not yet reclaimed
    pc,               \* "idle", or "loop" while Variable.backward is running
    root,             \* self of the running (or last) Variable.backward
    retain_grad,      \* its retain_grad argument
    seen_set,         \* its seen_set
    funcs,            \* its heap
    ret,              \* value returned by the last Function.__call__
    call,             \* that call: <<Config.enable_backprop, value of forward>>
    ended,            \* how the last backward ended: "none", "returned", "raised"
    error,            \* the expression that raised, "none" if none did
    invoked,          \* Functions whose backward the pass has invoked, in order
    pushed,           \* for each of them, the Functions it enqueued
    passes,           \* number of backward passes started
    clean,            \* the pass started with every gradient absent
    rerun,            \* the pass repeats the previous one after cleargrad of the leaves
    snap,             \* grad as the last pass left it
    twice,            \* the pass repeats the previous one with no gradient cleared
    first,            \* in a rerun or a repeat: grad as the first run left it
    entry,            \* Config.enable_backprop as each open scope found it
    scopeExit,        \* the last scope exit: <<flag before the scope, how it exited, flag in it>>
    dot               \* the last get_dot_graph: <<its argument, how it ended, Functions drawn>>

cfgvars == <<enable_backprop, saved, entry, scopeExit>>

graphvars == <<data, creator, generation, kind, inputs, outputs, fgen, alive>>

passvars == <<pc, root, retain_grad, seen_set, funcs, ended, error, invoked, pushed,
              passes, clean, rerun, twice, snap, first>>

vars == <<enable_backprop, saved, data, grad, creator, generation, kind, inputs,
          outputs, fgen, alive, pc, root, retain_grad, seen_set, funcs, ret, call, ended,
          error, invoked, pushed, passes, clean, rerun, twice, snap, first, entry,
          scopeExit, dot>>

Vars == 1..Len(data)

Funcs == 1..Len(kind)

Kinds == {"Neg", "Square", "Exp", "Tanh", "Add", "Sub", "Mul"}

Arity(k) == IF k \in {"Neg", "Square", "Exp", "Tanh"} THEN 1 ELSE 2

\* ------------------------------------------------------ concrete operations
\* forward of each Function subclass, on the data of its inputs
Forward(k, xs) ==
    CASE k = "Neg"    -> (-1) * xs[1]
      [] k = "Square" -> xs[1] * xs[1]
      [] k = "Exp"    -> 1
      [] k = "Tanh"   -> 0
      [] k = "Add"    -> xs[1] + xs[2]
      [] k = "Sub"    -> xs[1] - xs[2]
      [] k = "Mul"    -> xs[1] * xs[2]

ForwardDefined(k, xs) ==
    /\ k = "Exp" => xs[1] \in ExpDomain
    /\ k = "Tanh" => xs[1] \in TanhDomain

\* Exp.backward reads self.inputs.data, and self.inputs is a list;
\* Tanh.backward reads g, a name that is not defined
BackwardRaises(k) == k \in {"Exp", "Tanh"}

\* backward called with gy = None: arithmetic on None raises TypeError, and only
\* Add.backward, which returns gy, gy, does none
BackwardNoneRaises(k) == k # "Add"

\* backward of each Function subclass: gxs, one per input, as a tuple
Backward(k, xs, gy) ==
    CASE k = "Neg"    -> <<(-1) * gy>>
      [] k = "Square" -> <<2 * xs[1] * gy>>
      [] k = "Add"    -> <<gy, gy>>
      [] k = "Sub"    -> <<gy, -gy>>
      [] k = "Mul"    -> <<xs[2] * gy, xs[1] * gy>>
      [] OTHER        -> <<>>

\* ------------------------------------------------------------------- heapq
Lt_min(a, b) == fgen[a] < fgen[b]

\* Function.__lt__
Lt(a, b) == fgen[a] > fgen[b]

RECURSIVE SiftDownLoop(_, _, _, _)
SiftDownLoop(heap, startpos, pos, newitem) ==
    IF pos > startpos
    THEN LET parentpos == (pos - 1) \div 2
             parent    == heap[parentpos + 1]
         IN  IF Lt(newitem, parent)
             THEN SiftDownLoop([heap EXCEPT ![pos + 1] = parent],
                               startpos, parentpos, newitem)
             ELSE [heap EXCEPT ![pos + 1] = newitem]
    ELSE [heap EXCEPT ![pos + 1] = newitem]

siftdown(heap, startpos, pos) == SiftDownLoop(heap, startpos, pos, heap[pos + 1])

RECURSIVE SiftUpLoop(_, _, _)
SiftUpLoop(heap, pos, endpos) ==
    LET childpos == 2 * pos + 1
        rightpos == childpos + 1
        c == IF rightpos < endpos /\ ~Lt(heap[childpos + 1], heap[rightpos + 1])
             THEN rightpos ELSE childpos
    IN  IF childpos < endpos
        THEN SiftUpLoop([heap EXCEPT ![pos + 1] = heap[c + 1]], c, endpos)
        ELSE <<heap, pos>>

siftup(heap, pos) ==
    LET newitem == heap[pos + 1]
        r       == SiftUpLoop(heap, pos, Len(heap))
    IN  siftdown([r[1] EXCEPT ![r[2] + 1] = newitem], pos, r[2])

heappush(heap, item) == siftdown(Append(heap, item), 0, Len(heap))

\* <<the item popped, the heap left>>
heappop(heap) ==
    LET lastelt == heap[Len(heap)]
        rest    == SubSeq(heap, 1, Len(heap) - 1)
    IN  IF rest # <<>>
        THEN <<rest[1], siftup([rest EXCEPT ![1] = lastelt], 0)>>
        ELSE <<lastelt, <<>>>>

\* ------------------------------------------------------------------ state
Init ==
    /\ enable_backprop = TRUE
    /\ saved = <<>>
    /\ data = <<>>
    /\ grad = <<>>
    /\ creator = <<>>
    /\ generation = <<>>
    /\ kind = <<>>
    /\ inputs = <<>>
    /\ outputs = <<>>
    /\ fgen = <<>>
    /\ alive = {}
    /\ pc = "idle"
    /\ root = None
    /\ retain_grad = FALSE
    /\ seen_set = {}
    /\ funcs = <<>>
    /\ ret = None
    /\ call = <<>>
    /\ ended = "none"
    /\ error = "none"
    /\ invoked = <<>>
    /\ pushed = <<>>
    /\ passes = 0
    /\ clean = FALSE
    /\ rerun = FALSE
    /\ twice = FALSE
    /\ snap = <<>>
    /\ first = <<>>
    /\ entry = <<>>
    /\ scopeExit = <<>>
    /\ dot = <<>>

RECURSIVE MaxOf(_)
MaxOf(s) ==
    IF Len(s) = 1 THEN s[1]
    ELSE LET m == MaxOf(Tail(s)) IN IF s[1] > m THEN s[1] ELSE m

\* Variable.__init__ on an ndarray: a leaf
NewLeaf(d) ==
    /\ pc = "idle"
    /\ data' = Append(data, d)
    /\ grad' = Append(grad, NoGrad)
    /\ creator' = Append(creator, None)
    /\ generation' = Append(generation, 0)
    /\ alive' = alive \cup {Len(data) + 1}
    /\ UNCHANGED <<kind, inputs, outputs, fgen, ret, call, dot>>
    /\ UNCHANGED cfgvars
    /\ UNCHANGED passvars

FuncGeneration_first(ins) == generation[ins[1]]

\* Function.generation as __call__ sets it
FuncGeneration(ins) == MaxOf([i \in 1..Len(ins) |-> generation[ins[i]]])

\* Variable.set_creator: the generation it gives the output
OutputGeneration(g) == g + 1

\* Function.__call__ of a fresh instance of class k (neg, square, exp, add, sub, mul)
Apply(k, ins) ==
    /\ pc = "idle"
    /\ Len(ins) = Arity(k)
    /\ \A i \in 1..Len(ins) : ins[i] \in alive
    /\ LET xs == [i \in 1..Len(ins) |-> data[ins[i]]]
           f  == Len(kind) + 1
           y  == Len(data) + 1
       IN  /\ ForwardDefined(k, xs)
           /\ call' = <<enable_backprop, Forward(k, xs)>>
           /\ IF enable_backprop
              THEN /\ data' = Append(data, Forward(k, xs))
                   /\ grad' = Append(grad, NoGrad)
                   /\ creator' = Append(creator, f)
                   /\ generation' = Append(generation, OutputGeneration(FuncGeneration(ins)))
                   /\ kind' = Append(kind, k)
                   /\ inputs' = Append(inputs, ins)
                   /\ outputs' = Append(outputs, <<y>>)
                   /\ fgen' = Append(fgen, FuncGeneration(ins))
                   /\ alive' = alive \cup {y}
                   /\ ret' = y
              ELSE /\ ret' = None
                   /\ UNCHANGED <<data, grad, creator, generation, kind, inputs,
                                  outputs, fgen, alive>>
    /\ UNCHANGED dot
    /\ UNCHANGED cfgvars
    /\ UNCHANGED passvars

\* Function.__call__ of the instance f, called before: f = Square(); f(a); f(b)
Reapply(f, ins) ==
    /\ pc = "idle"
    /\ Len(ins) = Arity(kind[f])
    /\ \A i \in 1..Len(ins) : ins[i] \in alive
    /\ LET xs == [i \in 1..Len(ins) |-> data[ins[i]]]
           y  == Len(data) + 1
       IN  /\ ForwardDefined(kind[f], xs)
           /\ call' = <<enable_backprop, Forward(kind[f], xs)>>
           /\ IF enable_backprop
              THEN /\ data' = Append(data, Forward(kind[f], xs))
                   /\ grad' = Append(grad, NoGrad)
                   /\ creator' = Append(creator, f)
                   /\ generation' = Append(generation, OutputGeneration(FuncGeneration(ins)))
                   /\ inputs' = [inputs EXCEPT ![f] = ins]
                   /\ outputs' = [outputs EXCEPT ![f] = <<y>>]
                   /\ fgen' = [fgen EXCEPT ![f] = FuncGeneration(ins)]
                   /\ alive' = alive \cup {y}
                   /\ ret' = y
              ELSE /\ ret' = None
                   /\ UNCHANGED <<data, grad, creator, generation, inputs, outputs,
                                  fgen, alive>>
    /\ UNCHANGED <<kind, dot>>
    /\ UNCHANGED cfgvars
    /\ UNCHANGED passvars

\* the program drops its last reference to v, and no Function holds v in its
\* inputs: v is reclaimed, and the weak references to it are dead
Drop(v) ==
    /\ pc = "idle"
    /\ v \in alive
    /\ \A f \in Funcs : \A i \in 1..Len(inputs[f]) : inputs[f][i] # v
    /\ alive' = alive \ {v}
    /\ UNCHANGED <<data, creator, generation, kind, inputs, outputs, fgen>>
    /\ UNCHANGED <<grad, ret, call, dot>>
    /\ UNCHANGED cfgvars
    /\ UNCHANGED passvars

\* Variable.cleargrad
ClearGrad(v) ==
    /\ pc = "idle"
    /\ v \in alive
    /\ grad' = [grad EXCEPT ![v] = NoGrad]
    /\ UNCHANGED <<ret, call, dot>>
    /\ UNCHANGED graphvars
    /\ UNCHANGED cfgvars
    /\ UNCHANGED passvars

\* ------------------------------------------------------- Variable.backward
\* the Variables a pass from v can touch: v and the inputs of every Function
\* found by following creator links and input lists
RECURSIVE ReachSet(_)
ReachSet(S) ==
    LET T == S \cup UNION {{inputs[creator[u]][i] : i \in 1..Len(inputs[creator[u]])} :
                              u \in {w \in S : creator[w] # None}}
    IN  IF T = S THEN S ELSE ReachSet(T)

Reach(v) == ReachSet({v})

ReachFuncs(v) == {creator[u] : u \in Reach(v)} \ {None}

IsLeaf(v) == creator[v] = None

\* add_func, on the pass's locals st = [grad, seen, heap, pushed]
add_func(st, f) ==
    IF f \notin st.seen
    THEN [st EXCEPT !.seen = @ \cup {f}, !.heap = heappush(@, f), !.pushed = Append(@, f)]
    ELSE st

Accumulate_overwrite(old, gx) == Some(gx)

\* x.grad = gx if x.grad is None else gx + x.grad
Accumulate(old, gx) == IF old = NoGrad THEN Some(gx) ELSE Some(gx + old[1])

\* for x, gx in zip(f.inputs, gxs): ...
RECURSIVE InputLoop(_, _, _, _)
InputLoop(st, ins, gxs, i) ==
    IF i > Len(ins) \/ i > Len(gxs) THEN st
    ELSE LET x   == ins[i]
             st1 == [st EXCEPT !.grad[x] = Accumulate(@, gxs[i])]
             st2 == IF creator[x] # None THEN add_func(st1, creator[x]) ELSE st1
         IN  InputLoop(st2, ins, gxs, i + 1)

\* the same loop when every gx is None: x.grad stays None, and None + x.grad
\* raises TypeError
RECURSIVE NoneLoop(_, _, _)
NoneLoop(st, ins, i) ==
    IF i > Len(ins) THEN st
    ELSE LET x == ins[i]
         IN  IF st.grad[x] # NoGrad THEN [st EXCEPT !.raised = TRUE]
             ELSE NoneLoop(IF creator[x] # None THEN add_func(st, creator[x]) ELSE st,
                           ins, i + 1)

Deref_strong(v) == v

\* output(): the Variable a weak reference names, None once it is reclaimed
Deref(v) == IF v \in alive THEN v ELSE None

ClearOutputs_keep(g, f) == g

ClearOutputs_inputs(g, f) ==
    [v \in DOMAIN g |-> IF \E i \in 1..Len(inputs[f]) : inputs[f][i] = v
                        THEN NoGrad ELSE g[v]]

ClearOutputs_all(g, f) == [v \in DOMAIN g |-> NoGrad]

\* for y in f.outputs: y().grad = None
ClearOutputs(g, f) ==
    [v \in DOMAIN g |-> IF \E i \in 1..Len(outputs[f]) : outputs[f][i] = v
                        THEN NoGrad ELSE g[v]]

\* lines 76-86: seed the gradient, then add_func(self.creator)
BackwardStart(v, r) ==
    /\ pc = "idle"
    /\ v \in alive
    /\ LET g0 == IF grad[v] = NoGrad THEN [grad EXCEPT ![v] = Some(1)] ELSE grad
           st == add_func([grad |-> g0, seen |-> {}, heap |-> <<>>, pushed |-> <<>>],
                          creator[v])
           again == /\ ended # "none"
                    /\ root = v
                    /\ ~retain_grad /\ ~r
                    /\ clean
                    /\ Len(snap) = Len(grad)
                    /\ \A u \in Vars :
                          grad[u] = IF IsLeaf(u) /\ u \in Reach(v) THEN NoGrad ELSE snap[u]
           repeat == /\ ended # "none"
                     /\ root = v
                     /\ ~retain_grad /\ ~r
                     /\ clean
                     /\ grad = snap
       IN  /\ grad' = st.grad
           /\ seen_set' = st.seen
           /\ funcs' = st.heap
           /\ clean' = \A u \in Vars : grad[u] = NoGrad
           /\ rerun' = again
           /\ twice' = repeat
           /\ first' = IF again \/ repeat THEN snap ELSE <<>>
    /\ pc' = "loop"
    /\ root' = v
    /\ retain_grad' = r
    /\ ended' = "none"
    /\ error' = "none"
    /\ invoked' = <<>>
    /\ pushed' = <<>>
    /\ passes' = passes + 1
    /\ UNCHANGED <<ret, call, snap, dot>>
    /\ UNCHANGED graphvars
    /\ UNCHANGED cfgvars

\* the pass stops on a raised error: nothing more is touched
Raise(rest, log, expr) ==
    /\ pc' = "idle"
    /\ ended' = "raised"
    /\ error' = expr
    /\ funcs' = rest
    /\ invoked' = log
    /\ snap' = grad
    /\ UNCHANGED <<grad, seen_set, pushed>>

\* lines 88-100: one iteration of `while funcs`
BackwardStep ==
    /\ pc = "loop"
    /\ funcs # <<>>
    /\ LET p    == heappop(funcs)
           f    == p[1]
           rest == p[2]
       IN  IF f = None
           THEN Raise(rest, invoked, "f.outputs")
           ELSE IF \E i \in 1..Len(outputs[f]) : Deref(outputs[f][i]) = None
           THEN Raise(rest, invoked, "output().grad")
           ELSE IF BackwardRaises(kind[f])
           THEN Raise(rest, Append(invoked, f), "f.backward")
           ELSE LET gys == [i \in 1..Len(outputs[f]) |-> grad[Deref(outputs[f][i])]]
                    xs  == [i \in 1..Len(inputs[f]) |-> data[inputs[f][i]]]
                    st0 == [grad |-> grad, seen |-> seen_set, heap |-> rest,
                            pushed |-> <<>>, raised |-> FALSE]
                    st  == IF gys[1] = NoGrad
                           THEN NoneLoop(st0, inputs[f], 1)
                           ELSE InputLoop(st0, inputs[f],
                                          Backward(kind[f], xs, gys[1][1]), 1)
                IN  IF gys[1] = NoGrad /\ BackwardNoneRaises(kind[f])
                    THEN Raise(rest, Append(invoked, f), "f.backward")
                    ELSE IF st.raised
                    THEN Raise(st.heap, Append(invoked, f), "gx + x.grad")
                    ELSE /\ grad' = IF retain_grad THEN st.grad
                                    ELSE ClearOutputs(st.grad, f)
                         /\ seen_set' = st.seen
                         /\ funcs' = st.heap
                         /\ invoked' = Append(invoked, f)
                         /\ pushed' = Append(pushed, st.pushed)
                         /\ UNCHANGED <<pc, ended, error, snap>>
    /\ UNCHANGED <<root, retain_grad, passes, clean, rerun, twice, first, ret, call, dot>>
    /\ UNCHANGED graphvars
    /\ UNCHANGED cfgvars

\* `while funcs` finds the heap empty: backward returns
BackwardReturn ==
    /\ pc = "loop"
    /\ funcs = <<>>
    /\ pc' = "idle"
    /\ ended' = "returned"
    /\ snap' = grad
    /\ UNCHANGED <<grad, root, retain_grad, seen_set, funcs, error, invoked, pushed,
                   passes, clean, rerun, twice, first, ret, call, dot>>
    /\ UNCHANGED graphvars
    /\ UNCHANGED cfgvars

\* ------------------------------------------------------------ get_dot_graph
\* add_func of get_dot_graph, on its locals st = [seen, stack]
dot_add_func(st, f) ==
    IF f \notin st.seen
    THEN [seen |-> st.seen \cup {f}, stack |-> Append(st.stack, f)]
    ELSE st

\* lines 38-41: for x in f.inputs: ... if x.creator is not None: add_func(x.creator)
RECURSIVE DotInputs(_, _, _)
DotInputs(st, ins, i) ==
    IF i > Len(ins) THEN st
    ELSE DotInputs(IF creator[ins[i]] # None THEN dot_add_func(st, creator[ins[i]])
                   ELSE st, ins, i + 1)

\* lines 35-41: the `while funcs` loop; funcs.pop() takes the last element, and
\* _dot_func(f) reads f.inputs.  <<how the walk ended, the Functions drawn>>
RECURSIVE DotLoop(_, _)
DotLoop(st, drawn) ==
    IF st.stack = <<>> THEN <<"returned", drawn>>
    ELSE LET f    == st.stack[Len(st.stack)]
             rest == SubSeq(st.stack, 1, Len(st.stack) - 1)
         IN  IF f = None THEN <<"raised", drawn>>
             ELSE DotLoop(DotInputs([st EXCEPT !.stack = rest], inputs[f], 1),
                          Append(drawn, f))

\* get_dot_graph(output): add_func(output.creator), then the loop
GetDotGraph(v) ==
    /\ pc = "idle"
    /\ v \in alive
    /\ LET r == DotLoop(dot_add_func([seen |-> {}, stack |-> <<>>], creator[v]), <<>>)
       IN  dot' = <<v, r[1], r[2]>>
    /\ UNCHANGED <<grad, ret, call>>
    /\ UNCHANGED graphvars
    /\ UNCHANGED cfgvars
    /\ UNCHANGED passvars

\* ------------------------------------------------------------ using_config
\* using_config('enable_backprop', value) up to its yield; no_grad() is value = FALSE
EnterScope(value) ==
    /\ pc = "idle"
    /\ saved' = Append(saved, enable_backprop)
    /\ enable_backprop' = value
    /\ entry' = Append(entry, enable_backprop)
    /\ scopeExit' = <<>>
    /\ UNCHANGED <<grad, ret, call, dot>>
    /\ UNCHANGED graphvars
    /\ UNCHANGED passvars

Restore_normal_only(how, old) == IF how = "normal" THEN old ELSE enable_backprop

\* finally: setattr(Config, name, old_value)
Restore(how, old) == old

\* the innermost scope exits, by a normal return or by a raised error
ExitScope(how) ==
    /\ pc = "idle"
    /\ saved # <<>>
    /\ enable_backprop' = Restore(how, saved[Len(saved)])
    /\ saved' = SubSeq(saved, 1, Len(saved) - 1)
    /\ entry' = SubSeq(entry, 1, Len(entry) - 1)
    /\ scopeExit' = <<entry[Len(entry)], how, enable_backprop>>
    /\ UNCHANGED <<grad, ret, call, dot>>
    /\ UNCHANGED graphvars
    /\ UNCHANGED passvars

\* ------------------------------------------------------------------- specs
Leaves == {v \in Vars : IsLeaf(v)}

Operands(k) == {ins \in UNION {[1..n -> Vars] : n \in 1..2} : Len(ins) = Arity(k)}

\* a run builds its graph first and differentiates it afterwards: a pass never
\* reads what was built after it, and building never reads a gradient
Building == passes = 0

\* graphs and backward passes, graph-building enabled throughout.  The traversal
\* reads no data, so one leaf value and one Function class of each arity do.
CoreValues == {0}

CoreKinds == {"Exp", "Add"}

Next ==
    \/ \E d \in CoreValues : Building /\ Len(data) < MaxVars /\ NewLeaf(d)
    \/ \E k \in CoreKinds : \E ins \in Operands(k) :
          Building /\ Len(data) < MaxVars /\ Apply(k, ins)
    \/ \E v \in Vars : \E r \in BOOLEAN : passes < MaxPasses /\ BackwardStart(v, r)
    \/ BackwardStep
    \/ BackwardReturn

Spec == Init /\ [][Next]_vars

\* y.backward() with its default retain_grad, cleargrad and repeated passes, on
\* smaller graphs whose gradients depend on the data
RerunValues == {0, 2}

RerunKinds == {"Square", "Exp", "Add", "Mul"}

NextRerun ==
    \/ \E d \in RerunValues : Building /\ Len(data) < MaxRerunVars /\ NewLeaf(d)
    \/ \E k \in RerunKinds : \E ins \in Operands(k) :
          Building /\ Len(data) < MaxRerunVars /\ Apply(k, ins)
    \/ \E v \in Vars : ClearGrad(v)
    \/ \E v \in Vars : passes < MaxReruns /\ BackwardStart(v, FALSE)
    \/ BackwardStep
    \/ BackwardReturn

SpecRerun == Init /\ [][NextRerun]_vars

\* y = f(...); y.backward(): one pass, from absent gradients, from the Variable
\* the last application returned, on graphs of additions, multiplications and
\* squares over the values of the two scenarios
PathValues == {2, 3}

PathKinds == {"Square", "Add", "Mul"}

NextPath ==
    \/ \E d \in PathValues : Building /\ Len(data) < MaxPathVars /\ NewLeaf(d)
    \/ \E k \in PathKinds : \E ins \in Operands(k) :
          Building /\ Len(data) < MaxPathVars /\ Apply(k, ins)
    \/ Building /\ ret # None /\ BackwardStart(ret, FALSE)
    \/ BackwardStep
    \/ BackwardReturn

SpecPath == Init /\ [][NextPath]_vars

\* one application of every Function class, differentiated and exported
OpsValues == {0}

NextOps ==
    \/ \E d \in OpsValues : Building /\ Len(data) < MaxOpsVars /\ NewLeaf(d)
    \/ \E k \in Kinds : \E ins \in Operands(k) :
          Building /\ Len(data) < MaxOpsVars /\ Apply(k, ins)
    \/ \E v \in Vars : GetDotGraph(v)
    \/ \E v \in Vars : \E r \in BOOLEAN : Building /\ BackwardStart(v, r)
    \/ BackwardStep
    \/ BackwardReturn

SpecOps == Init /\ [][NextOps]_vars

\* Function instances applied more than once, Variables reclaimed, one pass
ReuseValues == {2}

ReuseKinds == {"Square", "Add"}

NextReuse ==
    \/ \E d \in ReuseValues : Building /\ Len(data) < MaxReuseVars /\ NewLeaf(d)
    \/ \E k \in ReuseKinds : \E ins \in Operands(k) :
          Building /\ Len(data) < MaxReuseVars /\ Apply(k, ins)
    \/ \E f \in Funcs : \E ins \in Operands(kind[f]) :
          Building /\ Len(data) < MaxReuseVars /\ Reapply(f, ins)
    \/ \E v \in Vars : Building /\ Drop(v)
    \/ \E v \in Vars : Building /\ BackwardStart(v, FALSE)
    \/ BackwardStep
    \/ BackwardReturn

SpecReuse == Init /\ [][NextReuse]_vars

\* graph building under using_config scopes
GraphValues == {2}

GraphKinds == {"Neg", "Square", "Sub", "Mul"}

NextGraph ==
    \/ \E d \in GraphValues : Len(data) < MaxGraphVars /\ NewLeaf(d)
    \/ \E k \in GraphKinds : \E ins \in Operands(k) :
          (enable_backprop => Len(data) < MaxGraphVars) /\ Apply(k, ins)
    \/ \E value \in BOOLEAN : Len(saved) < MaxDepth /\ EnterScope(value)
    \/ \E how \in {"normal", "raise"} : ExitScope(how)

SpecGraph == Init /\ [][NextGraph]_vars

\* ------------------------------------------------------------- properties
\* Function g takes an output of Function f as an input
Consumes(g, f) ==
    \E i \in 1..Len(inputs[g]) : \E j \in 1..Len(outputs[f]) : inputs[g][i] = outputs[f][j]

Consumers(f) == {g \in ReachFuncs(root) : Consumes(g, f)}

Count(log, f) == Cardinality({i \in 1..Len(log) : log[i] = f})

\* C1: in a backward pass a Function's backward is invoked only after the
\* backward of every Function reachable from the root that consumes one of its
\* outputs; a consumer's generation is strictly greater than its producer's.
C1_ConsumersFirst ==
    /\ \A i \in 1..Len(invoked) : \A g \in Consumers(invoked[i]) :
          \E j \in 1..(i - 1) : invoked[j] = g
    /\ \A f, g \in Funcs : Consumes(g, f) => fgen[g] > fgen[f]

\* a pass has invoked a Function whose output two Functions of different
\* generations consume
C1_Witness ==
    /\ ended = "returned"
    /\ \E i \in 1..Len(invoked) : \E g, h \in Consumers(invoked[i]) : fgen[g] < fgen[h]

RECURSIVE SumSeq(_)
SumSeq(s) == IF s = <<>> THEN 0 ELSE s[1] + SumSeq(Tail(s))

\* the derivative of Function f's output with respect to its i-th input slot
Derivative(f, i) ==
    LET xs == [j \in 1..Len(inputs[f]) |-> data[inputs[f][j]]]
    IN  CASE kind[f] = "Neg"    -> -1
          [] kind[f] = "Square" -> 2 * xs[1]
          [] kind[f] = "Exp"    -> data[outputs[f][1]]
          [] kind[f] = "Tanh"   -> 1 - data[outputs[f][1]] * data[outputs[f][1]]
          [] kind[f] = "Add"    -> 1
          [] kind[f] = "Sub"    -> IF i = 1 THEN 1 ELSE -1
          [] kind[f] = "Mul"    -> IF i = 1 THEN xs[2] ELSE xs[1]

\* the sum, over the paths from Variable r back to Variable v, of the product of
\* the derivatives along the path
RECURSIVE PathGrad(_, _)
PathGrad(r, v) ==
    (IF v = r THEN 1 ELSE 0)
    + SumSeq([f \in 1..Len(kind) |->
                IF f \in ReachFuncs(r)
                THEN SumSeq([i \in 1..Len(inputs[f]) |->
                               IF inputs[f][i] = v
                               THEN Derivative(f, i) * PathGrad(r, outputs[f][1])
                               ELSE 0])
                ELSE 0])

\* the number of those paths
RECURSIVE NumPaths(_, _)
NumPaths(r, v) ==
    (IF v = r THEN 1 ELSE 0)
    + SumSeq([f \in 1..Len(kind) |->
                IF f \in ReachFuncs(r)
                THEN SumSeq([i \in 1..Len(inputs[f]) |->
                               IF inputs[f][i] = v THEN NumPaths(r, outputs[f][1]) ELSE 0])
                ELSE 0])

\* a pass from absent gradients has ended, and two paths lead from its root to leaf x
TwoPaths(x) ==
    /\ ended # "none"
    /\ clean
    /\ x \in Reach(root)
    /\ IsLeaf(x)
    /\ NumPaths(root, x) = 2

\* C2: after y.backward() from absent gradients, a leaf that reaches y along two
\* paths holds the sum of the two path contributions.
C2_Original == \A x \in Vars : TwoPaths(x) => snap[x] = Some(PathGrad(root, x))

\* C2 on the passes that return
C2_WhenReturned ==
    ended = "returned" => \A x \in Vars : TwoPaths(x) => snap[x] = Some(PathGrad(root, x))

\* C5: in a backward pass every Function reachable from the root has its
\* backward invoked exactly once.
C5_Original ==
    (ended # "none" /\ root # None) => \A f \in ReachFuncs(root) : Count(invoked, f) = 1

\* C5 on the passes that return, and never twice on any pass
C5_WhenReturned ==
    /\ \A f \in Funcs : Count(invoked, f) <= 1
    /\ \A i \in 1..Len(invoked) : invoked[i] \in ReachFuncs(root)
    /\ ended = "returned" => \A f \in ReachFuncs(root) : Count(invoked, f) = 1

\* C6: backward on a leaf seeds the leaf's gradient, enqueues nothing, processes
\* nothing and completes without failure.
C6_Original ==
    (root # None /\ IsLeaf(root)) =>
        /\ pc = "loop" => funcs = <<>>
        /\ ended # "raised"

\* C10: backward ends with an empty work set, and every Function enqueued while
\* processing f has a generation strictly smaller than f's.
C10_Original ==
    /\ ended # "none" => funcs = <<>>
    /\ \A i \in 1..Len(pushed) : \A j \in 1..Len(pushed[i]) :
          fgen[pushed[i][j]] < fgen[invoked[i]]

\* C10 on the passes that return; every pass ends within one step per Function
C10_WhenReturned ==
    /\ ended = "returned" => funcs = <<>>
    /\ \A i \in 1..Len(pushed) : \A j \in 1..Len(pushed[i]) :
          fgen[pushed[i][j]] < fgen[invoked[i]]
    /\ pc = "loop" => Len(invoked) + Len(funcs) <= Len(kind) + 1

\* C3: an operation applied with Config.enable_backprop = False returns a
\* Variable that holds the forward value and has no creator and generation 0.
C3_Original ==
    (call # <<>> /\ ~call[1]) =>
        /\ ret # None
        /\ data[ret] = call[2]
        /\ creator[ret] = None
        /\ generation[ret] = 0

\* C4: when a using_config scope exits, normally or by a raised error, the flag
\* has the value it had immediately before that scope was entered.
C4_Restored == scopeExit # <<>> => enable_backprop = scopeExit[1]

\* a scope nested in another was left by a raised error and put back a flag
\* that differs from the one it had set
C4_Witness ==
    /\ scopeExit # <<>>
    /\ scopeExit[2] = "raise"
    /\ saved # <<>>
    /\ scopeExit[3] # scopeExit[1]

\* C7: after y.backward(), cleargrad() of the input Variables and a second
\* y.backward(), the gradients are those the first run left: of every input
\* Variable, and of every Variable when the pass returns.
C7_Reproduced ==
    (rerun /\ ended # "none") =>
        /\ \A v \in Leaves : snap[v] = first[v]
        /\ ended = "returned" => snap = first

\* a rerun has returned on a graph with an intermediate Variable, and left a
\* leaf a gradient other than 0
C7_Witness ==
    /\ rerun
    /\ ended = "returned"
    /\ Len(invoked) = 2
    /\ \E v \in Leaves : snap[v] # NoGrad /\ snap[v] # Some(0)

\* the longest path from a leaf to Variable v, in Function applications
RECURSIVE LongestPath(_)
LongestPath(v) ==
    IF IsLeaf(v) THEN 0
    ELSE LET ins == inputs[creator[v]]
             far == CHOOSE i \in 1..Len(ins) :
                       \A j \in 1..Len(ins) : LongestPath(ins[j]) <= LongestPath(ins[i])
         IN  LongestPath(ins[far]) + 1

\* C8: a Variable without creator has generation 0, any other has its creator's
\* generation + 1, the creator's generation being the maximum over its inputs;
\* so a Variable's generation is the length of the longest path from a leaf to
\* it and exceeds the generation of every input of its creator.
C8_Generation ==
    /\ \A v \in Vars :
          /\ generation[v] = IF IsLeaf(v) THEN 0 ELSE fgen[creator[v]] + 1
          /\ generation[v] = LongestPath(v)
    /\ \A f \in Funcs :
          /\ \A i \in 1..Len(inputs[f]) : generation[inputs[f][i]] <= fgen[f]
          /\ \E i \in 1..Len(inputs[f]) : generation[inputs[f][i]] = fgen[f]
          /\ \A i \in 1..Len(inputs[f]) : \A j \in 1..Len(outputs[f]) :
                generation[outputs[f][j]] > generation[inputs[f][i]]

\* a Function was applied to inputs of different generations, the first the lower
C8_Witness ==
    \E f \in Funcs : Len(inputs[f]) = 2
                     /\ generation[inputs[f][1]] < generation[inputs[f][2]]

\* C9: when backward(retain_grad=False) returns, every non-leaf Variable
\* reachable from the root has no gradient and every reachable leaf has one;
\* a pass with retain_grad=True clears no gradient.
C9_Cleared ==
    /\ [](ended = "returned" =>
            \A v \in Reach(root) :
               IF IsLeaf(v) THEN snap[v] # NoGrad
               ELSE (snap[v] = NoGrad) = ~retain_grad)
    /\ [][(pc = "loop" /\ retain_grad) =>
            \A v \in Vars : grad[v] # NoGrad => grad'[v] # NoGrad]_vars

\* a pass with retain_grad=False has returned from a root three Functions deep
C9_Witness ==
    /\ ended = "returned"
    /\ ~retain_grad
    /\ Len(invoked) = 3
    /\ generation[root] = 3

\* y = x*x + x*x has been differentiated, y = add(a, b) with a and b two
\* multiplications of the leaf x by itself
Scenario12(x, y) ==
    /\ ended # "none" /\ clean /\ root = y
    /\ IsLeaf(x) /\ data[x] = 3
    /\ ~IsLeaf(y) /\ kind[creator[y]] = "Add"
    /\ LET a == inputs[creator[y]][1]
           b == inputs[creator[y]][2]
       IN  /\ a # b
           /\ \A m \in {a, b} : /\ ~IsLeaf(m)
                                 /\ kind[creator[m]] = "Mul"
                                 /\ inputs[creator[m]] = <<x, x>>

\* y = square(x) has been differentiated
Scenario4(x, y) ==
    /\ ended # "none" /\ clean /\ root = y
    /\ IsLeaf(x) /\ data[x] = 2
    /\ ~IsLeaf(y) /\ kind[creator[y]] = "Square" /\ inputs[creator[y]] = <<x>>

\* C11: after y.backward() from absent gradients on a graph of additions and
\* multiplications, every leaf holds the sum over the paths from y to it of the
\* product of the local derivatives; x = 3, y = x*x + x*x gives 12 and x = 2,
\* y = square(x) gives 4.
C11_PathSum ==
    /\ (ended # "none" /\ clean) =>
          \A x \in Reach(root) : IsLeaf(x) => snap[x] = Some(PathGrad(root, x))
    /\ \A x, y \in Vars : Scenario12(x, y) => snap[x] = Some(12)
    /\ \A x, y \in Vars : Scenario4(x, y) => snap[x] = Some(4)

\* the pass over y = x*x + x*x at x = 3 has returned
C11_Witness == ended = "returned" /\ \E x, y \in Vars : Scenario12(x, y)

\* a pass from absent gradients has ended, from the output of a Function
\* applied to leaves
OneApplication ==
    /\ ended # "none" /\ clean
    /\ ~IsLeaf(root)
    /\ \A i \in 1..Len(inputs[creator[root]]) : IsLeaf(inputs[creator[root]][i])

\* C12: backward of every Function class completes without failure and gives
\* each input its gradient: the incoming gradient times the derivative at the
\* stored input values, exp(x) for exp and 1 - y*y at the stored output for tanh.
C12_Original ==
    /\ error # "f.backward"
    /\ OneApplication =>
          \A i \in 1..Len(inputs[creator[root]]) :
             LET x == inputs[creator[root]][i]
             IN  snap[x] = Some(PathGrad(root, x))

\* C12 for the classes other than Exp and Tanh
C12_OtherOps ==
    (OneApplication /\ kind[creator[root]] \notin {"Exp", "Tanh"}) =>
        /\ ended = "returned"
        /\ \A i \in 1..Len(inputs[creator[root]]) :
              LET x == inputs[creator[root]][i]
              IN  snap[x] = Some(PathGrad(root, x))

\* C13: get_dot_graph completes from any Variable, a leaf included, and changes
\* no gradient and no creator.
C13_Original == dot # <<>> => dot[2] = "returned"

\* C13 from a Variable that has a creator: every reachable Function is drawn once
C13_FromOutput ==
    (dot # <<>> /\ ~IsLeaf(dot[1])) =>
        /\ dot[2] = "returned"
        /\ \A f \in ReachFuncs(dot[1]) : Count(dot[3], f) = 1

\* get_dot_graph changes no gradient and no creator
C13_Frame == [][dot' # dot => (grad' = grad /\ creator' = creator)]_vars

\* the Function the pass is about to process has an output that was reclaimed
StalePop ==
    /\ pc = "loop"
    /\ funcs # <<>>
    /\ LET f == heappop(funcs)[1]
       IN  /\ f # None
           /\ \E i \in 1..Len(outputs[f]) : outputs[f][i] \notin alive

\* C14: when backward processes a Function one of whose outputs was reclaimed,
\* it raises at that point: the Function's backward is not invoked, no gradient
\* changes and the pass is over.
C14_StaleRaises ==
    [][StalePop => /\ ended' = "raised"
                   /\ error' = "output().grad"
                   /\ pc' = "idle"
                   /\ invoked' = invoked
                   /\ grad' = grad]_vars

\* a pass has met a dead weak reference after processing another Function
C14_Witness ==
    /\ ended = "raised"
    /\ error = "output().grad"
    /\ invoked # <<>>

\* C15: the generation of a Function never changes once its forward has run,
\* whatever is applied or differentiated afterwards.
C15_Original == [][\A f \in Funcs : fgen'[f] = fgen[f]]_vars

\* C15 for every step that is not a second call of the same Function instance
C15_FirstCall ==
    [][(\A f \in Funcs : outputs'[f] = outputs[f]) =>
          \A f \in Funcs : fgen'[f] = fgen[f]]_vars

\* the root and the inputs and outputs of the Functions reachable from it
Touched(r) ==
    {r} \cup UNION {{inputs[f][i] : i \in 1..Len(inputs[f])} \cup
                    {outputs[f][i] : i \in 1..Len(outputs[f])} : f \in ReachFuncs(r)}

\* C16: a step of Variable.backward changes no data, creator or generation of a
\* Variable, no inputs, outputs or generation of a Function and not
\* Config.enable_backprop, and changes the gradient only of the root and of the
\* inputs and outputs of Functions reachable from the root.
C16_Frame ==
    [][(pc = "loop" \/ pc' = "loop") =>
          /\ data' = data /\ creator' = creator /\ generation' = generation
          /\ inputs' = inputs /\ outputs' = outputs /\ fgen' = fgen
          /\ enable_backprop' = enable_backprop
          /\ \A v \in Vars : v \notin Touched(root') => grad'[v] = grad[v]]_vars

\* a pass that processed a Function has ended, and a Variable its root does not
\* reach holds a gradient
C16_Witness ==
    /\ ended # "none"
    /\ invoked # <<>>
    /\ \E v \in Vars : v \notin Touched(root) /\ grad[v] # NoGrad

\* twice a gradient; no gradient stays no gradient
Double(g) == IF g = NoGrad THEN NoGrad ELSE Some(2 * g[1])

\* C17: after y.backward() twice in succession from absent gradients, with
\* nothing cleared in between, every reachable leaf holds twice the gradient a
\* single pass gives it.
C17_Original ==
    (twice /\ ended # "none") =>
        \A v \in Reach(root) : IsLeaf(v) => snap[v] = Double(first[v])

\* C17 when y is the output of a Function
C17_Doubled ==
    (twice /\ ended # "none" /\ ~IsLeaf(root)) =>
        \A v \in Reach(root) : IsLeaf(v) => snap[v] = Double(first[v])

\* the second of two passes in succession has returned, on a graph with an
\* intermediate Variable, and left a leaf a gradient other than 0
C17_Witness ==
    /\ twice
    /\ ended = "returned"
    /\ Len(invoked) = 2
    /\ \E v \in Reach(root) : IsLeaf(v) /\ snap[v] # NoGrad /\ snap[v] # Some(0)

====
